---- MODULE Spec2Model ----
(***************************************************************************)
(* OpenAI MCP server: startup (loadConfig, main), the CallTool handler     *)
(* (tool dispatch, argument validation, reply shaping), the OpenAIClient   *)
(* adapter operations (the race of an upstream call against a timer) and   *)
(* the error classifier.                                                   *)
(*                                                                         *)
(* Texts (messages, prompts, paths, reply texts) are sequences of chunks:  *)
(* concatenation is \o, a template is a fixed chunk, "includes" looks for  *)
(* a marker chunk.  A string argument also carries its length.             *)
(***************************************************************************)
EXTENDS Integers, Sequences, FiniteSets, TLC

VARIABLES
    env,        \* process.env: OPENAI_API_KEY and OPENAI_TIMEOUT
    exitStatus, \* << >> while the process runs, <<code>> after process.exit(code)
    transport,  \* "none" | "connected": the stdio transport of the server
    config,     \* the Config built at startup (apiKey, timeout, defaultModel, outputDir)
    pc,         \* "start" | "exited": position of main;
                \* "idle" | "running" | "replied": position of the CallTool handler
    request,    \* request.params of the invocation: [name, arguments]
    exists,     \* resolved paths fs.existsSync finds while the invocation is handled
    op,         \* the adapter operation the handler is suspended in ("" if none)
    calls,      \* upstream calls issued for the invocation, in order
    timers,     \* timers armed by timeoutPromise for the invocation, in order
    awaiting,   \* [call, timer]: indices into calls / timers the await is on (0: none)
    held,       \* value kept across awaits (the uploaded file's id)
    awaited,    \* what the last upstream call the handler awaited resolved with
    caught,     \* the failure that reached the handler's or an adapter's catch
    classified, \* TRUE when handleError was applied to it
    replies,    \* replies returned to the caller for the invocation
    saved       \* files written for the invocation: <<path, payload>>

vars == <<env, exitStatus, transport, config, pc, request, exists, op, calls, timers, awaiting, held, awaited,
          caught, classified, replies, saved>>

-----------------------------------------------------------------------------
(* Bounds of the model *)

\* OPENAI_TIMEOUT values 1..MaxTimeout are tried, besides the default and the
\* values loadConfig must refuse
MaxTimeout == 1

-----------------------------------------------------------------------------
(* Failures: what a rejected promise carries (message, status, code) *)

\* the message of the Error timeoutPromise rejects with
TimeoutSentinel == <<"Request timeout">>

SafetyMarker == "safety"
FetchMarker == "fetch"

\* String.prototype.includes, on chunked text
Includes(text, marker) == \E i \in 1..Len(text) : text[i] = marker

\* <<>> stands for an absent or empty message, 0 for no status, "" for no code
Messages ==
    { <<>>,
      TimeoutSentinel,
      <<"Request timeout", " exceeded">>,
      <<"Internal server error">>,
      <<"rejected by ", "safety", " system">>,
      <<"fetch", " failed">>,
      <<"safety", " check: ", "fetch", " blocked">> }

Statuses == {0, 400, 401, 403, 429, 500}

Codes == {"", "ENOTFOUND", "ECONNREFUSED", "ETIMEDOUT"}

Failures == [message : Messages, status : Statuses, code : Codes]

NoFailure == [message |-> <<"(none)">>, status |-> -1, code |-> "(none)"]

\* new Error(text)
NewError(text) == [message |-> text, status |-> 0, code |-> ""]

\* String(error) for an error whose message is empty
ErrorToString(error) == <<"Error">>

-----------------------------------------------------------------------------
(* The error classifier *)

TimeoutText == <<"OpenAI API request timed out. Please try again.">>
AuthText == <<"Invalid OpenAI API key. Please check your OPENAI_API_KEY environment variable.">>
RateLimitText == <<"OpenAI API rate limit exceeded. Please wait a moment and try again.">>
SafetyText == <<"Content blocked by OpenAI's safety filters. Try rephrasing your request.">>
ConnectPrefix == "Failed to connect to OpenAI API: "
UnknownPrefix == "OpenAI API error: "

handleError_precedence_bug(error) ==
    IF error.status = 401 \/ error.status = 403
    THEN NewError(AuthText)
    ELSE IF error.message = TimeoutSentinel
    THEN NewError(TimeoutText)
    ELSE IF error.status = 429
    THEN NewError(RateLimitText)
    ELSE IF error.status = 400 /\ Includes(error.message, SafetyMarker)
    THEN NewError(SafetyText)
    ELSE IF error.code = "ENOTFOUND" \/ error.code = "ECONNREFUSED"
            \/ Includes(error.message, FetchMarker)
    THEN NewError(<<ConnectPrefix>> \o error.message)
    ELSE NewError(<<UnknownPrefix>>
                  \o (IF error.message # <<>> THEN error.message ELSE ErrorToString(error)))

handleError_message_first(error) ==
    IF error.message = TimeoutSentinel
    THEN NewError(TimeoutText)
    ELSE IF error.code = "ENOTFOUND" \/ error.code = "ECONNREFUSED"
            \/ Includes(error.message, FetchMarker)
    THEN NewError(<<ConnectPrefix>> \o error.message)
    ELSE IF error.status = 401 \/ error.status = 403
    THEN NewError(AuthText)
    ELSE IF error.status = 429
    THEN NewError(RateLimitText)
    ELSE IF error.status = 400 /\ Includes(error.message, SafetyMarker)
    THEN NewError(SafetyText)
    ELSE NewError(<<UnknownPrefix>>
                  \o (IF error.message # <<>> THEN error.message ELSE ErrorToString(error)))

handleError(error) ==
    IF error.message = TimeoutSentinel
    THEN NewError(TimeoutText)
    ELSE IF error.status = 401 \/ error.status = 403
    THEN NewError(AuthText)
    ELSE IF error.status = 429
    THEN NewError(RateLimitText)
    ELSE IF error.status = 400 /\ Includes(error.message, SafetyMarker)
    THEN NewError(SafetyText)
    ELSE IF error.code = "ENOTFOUND" \/ error.code = "ECONNREFUSED"
            \/ Includes(error.message, FetchMarker)
    THEN NewError(<<ConnectPrefix>> \o error.message)
    ELSE NewError(<<UnknownPrefix>>
                  \o (IF error.message # <<>> THEN error.message ELSE ErrorToString(error)))

\* the category a classifier message belongs to ("" for any other text)
CategoryOf(text) ==
    IF text = TimeoutText THEN "Timeout"
    ELSE IF text = AuthText THEN "AuthInvalid"
    ELSE IF text = RateLimitText THEN "RateLimited"
    ELSE IF text = SafetyText THEN "ContentPolicyBlocked"
    ELSE IF text # <<>> /\ text[1] = ConnectPrefix THEN "NetworkUnreachable"
    ELSE IF text # <<>> /\ text[1] = UnknownPrefix THEN "Unknown"
    ELSE ""

-----------------------------------------------------------------------------
(* Argument values, as the JSON of request.params.arguments gives them *)

\* k: the JSON type; len: string length / array size; v: the content;
\* num: a number, in hundredths (n = 2 is 200, speed 0.25 is 25)
Undef == [k |-> "undefined", len |-> 0, v |-> <<>>, num |-> 0]
Str(v, len) == [k |-> "string", len |-> len, v |-> v, num |-> 0]
Num(h) == [k |-> "number", len |-> 0, v |-> <<>>, num |-> h]
Arr(n, items) == [k |-> "array", len |-> n, v |-> <<items>>, num |-> 0]
Bool == [k |-> "boolean", len |-> 0, v |-> <<>>, num |-> 0]

\* JavaScript truthiness of an argument value
Truthy(x) ==
    \/ x.k = "string" /\ x.len > 0
    \/ x.k = "number" /\ x.num # 0
    \/ x.k = "array"
    \/ x.k = "boolean"

-----------------------------------------------------------------------------
(* The zod schemas of the CallTool handler *)

NoLimit == -1

ZString(min, opt) ==
    [t |-> "string", opt |-> opt, min |-> min, max |-> NoLimit, int |-> FALSE, vals |-> {}]
ZEnum(vals, opt) ==
    [t |-> "enum", opt |-> opt, min |-> NoLimit, max |-> NoLimit, int |-> FALSE, vals |-> vals]
ZNumber(int, min, max, opt) ==
    [t |-> "number", opt |-> opt, min |-> min, max |-> max, int |-> int, vals |-> {}]
ZArray(min, max, opt) ==
    [t |-> "array", opt |-> opt, min |-> min, max |-> max, int |-> FALSE, vals |-> {}]

F(name, z) == [name |-> name, z |-> z]

Sizes == {<<"auto">>, <<"1024x1024">>, <<"1536x1024">>, <<"1024x1536">>}
Qualities == {<<"auto">>, <<"low">>, <<"medium">>, <<"high">>}
Efforts == {<<"low">>, <<"medium">>, <<"high">>}
Voices == {<<"alloy">>, <<"ash">>, <<"ballad">>, <<"coral">>, <<"echo">>, <<"fable">>,
           <<"onyx">>, <<"nova">>, <<"sage">>, <<"shimmer">>}
Formats == {<<"mp3">>, <<"opus">>, <<"aac">>, <<"flac">>, <<"wav">>, <<"pcm">>}

ToolNames ==
    { "ask", "code_review", "brainstorm", "explain", "search_web",
      "search_with_reasoning", "run_code", "fetch_url", "upload_file",
      "generate_image", "edit_image", "analyze_image", "text_to_speech",
      "transcribe" }

\* the fields of the z.object of each case of the switch, in declaration order
Schema(name) ==
    CASE name = "ask" ->
           << F("prompt", ZString(1, FALSE)), F("model", ZString(0, TRUE)),
              F("file_ids", ZArray(NoLimit, NoLimit, TRUE)) >>
      [] name = "code_review" ->
           << F("code", ZString(1, FALSE)), F("focus", ZString(0, TRUE)) >>
      [] name = "brainstorm" ->
           << F("topic", ZString(1, FALSE)), F("context", ZString(0, TRUE)) >>
      [] name = "explain" ->
           << F("concept", ZString(1, FALSE)) >>
      [] name = "search_web" ->
           << F("query", ZString(1, FALSE)), F("model", ZString(0, TRUE)) >>
      [] name = "search_with_reasoning" ->
           << F("prompt", ZString(1, FALSE)), F("model", ZString(0, TRUE)),
              F("effort", ZEnum(Efforts, TRUE)) >>
      [] name = "run_code" ->
           << F("prompt", ZString(1, FALSE)), F("model", ZString(0, TRUE)) >>
      [] name = "fetch_url" ->
           << F("prompt", ZString(1, FALSE)), F("urls", ZArray(1, 20, FALSE)),
              F("model", ZString(0, TRUE)) >>
      [] name = "upload_file" ->
           << F("file_path", ZString(1, FALSE)), F("query", ZString(0, TRUE)),
              F("model", ZString(0, TRUE)) >>
      [] name = "generate_image" ->
           << F("prompt", ZString(1, FALSE)), F("size", ZEnum(Sizes, TRUE)),
              F("quality", ZEnum(Qualities, TRUE)),
              F("n", ZNumber(TRUE, 100, 1000, TRUE)),
              F("save_path", ZString(0, TRUE)) >>
      [] name = "edit_image" ->
           << F("prompt", ZString(1, FALSE)), F("image_path", ZString(1, FALSE)),
              F("mask_path", ZString(0, TRUE)), F("size", ZEnum(Sizes, TRUE)),
              F("quality", ZEnum(Qualities, TRUE)), F("save_path", ZString(0, TRUE)) >>
      [] name = "analyze_image" ->
           << F("image_path", ZString(1, FALSE)), F("prompt", ZString(0, TRUE)),
              F("model", ZString(0, TRUE)) >>
      [] name = "text_to_speech" ->
           << F("text", ZString(1, FALSE)), F("voice", ZEnum(Voices, TRUE)),
              F("model", ZString(0, TRUE)), F("speed", ZNumber(FALSE, 25, 400, TRUE)),
              F("format", ZEnum(Formats, TRUE)), F("save_path", ZString(0, TRUE)) >>
      [] name = "transcribe" ->
           << F("audio_path", ZString(1, FALSE)), F("model", ZString(0, TRUE)),
              F("language", ZString(0, TRUE)), F("prompt", ZString(0, TRUE)) >>
      [] OTHER -> << >>

FieldNames(name) == { Schema(name)[i].name : i \in 1..Len(Schema(name)) }

\* the zod issue code a value raises against a field's schema ("" when it passes)
Issue(z, x) ==
    IF x.k = "undefined" THEN (IF z.opt THEN "" ELSE "invalid_type")
    ELSE CASE z.t = "string" ->
                IF x.k # "string" THEN "invalid_type"
                ELSE IF x.len < z.min THEN "too_small"
                ELSE IF z.max # NoLimit /\ x.len > z.max THEN "too_big"
                ELSE ""
           [] z.t = "enum" ->
                IF x.k # "string" THEN "invalid_type"
                ELSE IF x.v \notin z.vals THEN "invalid_enum_value"
                ELSE ""
           [] z.t = "number" ->
                IF x.k # "number" THEN "invalid_type"
                ELSE IF z.int /\ x.num % 100 # 0 THEN "invalid_type"
                ELSE IF x.num < z.min THEN "too_small"
                ELSE IF x.num > z.max THEN "too_big"
                ELSE ""
           [] z.t = "array" ->
                IF x.k # "array" THEN "invalid_type"
                ELSE IF x.v # <<"string">> /\ x.len > 0 THEN "invalid_type"
                ELSE IF z.min # NoLimit /\ x.len < z.min THEN "too_small"
                ELSE IF z.max # NoLimit /\ x.len > z.max THEN "too_big"
                ELSE ""

RECURSIVE IssuesFrom(_, _, _)
IssuesFrom(schema, args, i) ==
    IF i > Len(schema) THEN << >>
    ELSE LET c == Issue(schema[i].z, args[schema[i].name])
             rest == IssuesFrom(schema, args, i + 1)
         IN IF c = "" THEN rest ELSE <<[path |-> schema[i].name, code |-> c]>> \o rest

parse_no_checks(name, args) == << >>

\* schema.parse(args): the issues found (none: the parsed input is args)
parse(name, args) == IssuesFrom(Schema(name), args, 1)

RECURSIVE IssueText(_)
IssueText(issues) ==
    IF issues = << >> THEN << >>
    ELSE <<"{code:", issues[1].code, ",path:", issues[1].path, "}">> \o IssueText(Tail(issues))

\* the message of the ZodError schema.parse throws
ZodError(issues) == NewError(<<"[">> \o IssueText(issues) \o <<"]">>)

UnknownTool(name) == NewError(<<"Unknown tool: ", name>>)

\* maxLength of the inputSchema ListTools advertises (NoLimit: none declared)
inputSchemaMaxLength(name, field) ==
    CASE name = "code_review" /\ field = "code" -> 500000
      [] \/ name = "ask" /\ field = "prompt"
         \/ name = "brainstorm" /\ field \in {"topic", "context"}
         \/ name = "search_web" /\ field = "query"
         \/ name = "search_with_reasoning" /\ field = "prompt"
         \/ name = "run_code" /\ field = "prompt"
         \/ name = "upload_file" /\ field = "query"
         \/ name = "generate_image" /\ field = "prompt"
         \/ name = "analyze_image" /\ field = "prompt"
         \/ name = "text_to_speech" /\ field = "text" -> 100000
      [] OTHER -> NoLimit

-----------------------------------------------------------------------------
(* Paths: chunks, a directory chunk ends in "/", an extension chunk starts *)
(* with "."                                                                *)

DirChunks == {"/", "work/", "docs/", "src/", "img/", "audio/", "out/", "generated-media/"}
ExtChunks == {".TXT", ".txt", ".ts", ".Md", ".md", ".png", ".JPG", ".jpg", ".mp3", ".json"}

Cwd == <<"/", "work/">>

\* path.resolve(p) of a path without "." or ".." segments
resolve(p) == IF p # << >> /\ p[1] = "/" THEN p ELSE Cwd \o p

\* path.extname(p)
extname(p) == IF p # << >> /\ p[Len(p)] \in ExtChunks THEN p[Len(p)] ELSE ""

\* String.prototype.toLowerCase on the extension chunks
toLowerCase(e) ==
    CASE e = ".TXT" -> ".txt"
      [] e = ".Md" -> ".md"
      [] e = ".JPG" -> ".jpg"
      [] OTHER -> e

RECURSIVE LastDir(_, _)
LastDir(p, i) == IF i = 0 THEN 0 ELSE IF p[i] \in DirChunks THEN i ELSE LastDir(p, i - 1)

\* path.basename(p)
basename(p) == SubSeq(p, LastDir(p, Len(p)) + 1, Len(p))

UPLOAD_SUPPORTED_EXTENSIONS ==
    { ".c", ".css", ".csv", ".diff", ".html", ".htm", ".java", ".js", ".json",
      ".md", ".markdown", ".pdf", ".php", ".pl", ".pm", ".py", ".rb", ".rst",
      ".scala", ".sh", ".tex", ".txt", ".text", ".xml", ".yaml", ".yml",
      ".srt", ".vtt", ".eml", ".mjs", ".patch" }

-----------------------------------------------------------------------------
(* The invocations tried: per tool a few well-formed argument bags and     *)
(* every bag that differs from one of them in one argument                 *)

SomeText == <<"2+2?">>
SomeModel == <<"gpt-4o">>

UploadPaths == { <<"/", "docs/", "report", ".TXT">>, <<"src/", "main", ".ts">>,
                 <<"/", "docs/", "Makefile">> }
ImagePaths == { <<"/", "img/", "photo", ".png">>, <<"img/", "cat", ".JPG">> }
MaskPaths == { <<"/", "img/", "mask", ".png">> }
AudioPaths == { <<"/", "audio/", "talk", ".mp3">> }
SavePaths == { <<"/", "out/", "pic", ".png">>, <<"out/", "pic">> }

PathArg(p) == Str(p, Len(p))

AllUndef(name) == [f \in FieldNames(name) |-> Undef]

Bases(name) ==
    CASE name = "ask" -> { [AllUndef(name) EXCEPT !["prompt"] = Str(SomeText, 4)] }
      [] name = "code_review" -> { [AllUndef(name) EXCEPT !["code"] = Str(SomeText, 4)] }
      [] name = "brainstorm" -> { [AllUndef(name) EXCEPT !["topic"] = Str(SomeText, 4)] }
      [] name = "explain" -> { [AllUndef(name) EXCEPT !["concept"] = Str(SomeText, 4)] }
      [] name = "search_web" -> { [AllUndef(name) EXCEPT !["query"] = Str(SomeText, 4)] }
      [] name = "search_with_reasoning" ->
           { [AllUndef(name) EXCEPT !["prompt"] = Str(SomeText, 4)] }
      [] name = "run_code" -> { [AllUndef(name) EXCEPT !["prompt"] = Str(SomeText, 4)] }
      [] name = "fetch_url" ->
           { [AllUndef(name) EXCEPT !["prompt"] = Str(SomeText, 4),
                                    !["urls"] = Arr(1, "string")] }
      [] name = "upload_file" ->
           { [AllUndef(name) EXCEPT !["file_path"] = PathArg(p), !["query"] = q] :
               p \in UploadPaths, q \in {Undef, Str(SomeText, 4)} }
      [] name = "generate_image" ->
           { [AllUndef(name) EXCEPT !["prompt"] = Str(SomeText, 4), !["save_path"] = sp] :
               sp \in {Undef} \cup { PathArg(p) : p \in SavePaths } }
      [] name = "edit_image" ->
           { [AllUndef(name) EXCEPT !["prompt"] = Str(SomeText, 4),
                                    !["image_path"] = PathArg(p), !["mask_path"] = m] :
               p \in ImagePaths, m \in {Undef} \cup { PathArg(q) : q \in MaskPaths } }
      [] name = "analyze_image" ->
           { [AllUndef(name) EXCEPT !["image_path"] = PathArg(p)] : p \in ImagePaths }
      [] name = "text_to_speech" -> { [AllUndef(name) EXCEPT !["text"] = Str(SomeText, 4)] }
      [] name = "transcribe" ->
           { [AllUndef(name) EXCEPT !["audio_path"] = PathArg(p)] : p \in AudioPaths }
      [] OTHER -> { << >> }

\* values tried for one argument
Candidates(name, f) ==
    LET ceiling == inputSchemaMaxLength(name, f)
        long == IF ceiling = NoLimit THEN {}
                ELSE {Str(SomeText, ceiling), Str(SomeText, ceiling + 1)}
    IN CASE f \in {"prompt", "code", "topic", "concept", "query", "text", "context",
                   "focus", "language"} ->
              {Undef, Bool, Str(<< >>, 0), Str(SomeText, 4)} \cup long
         [] f = "model" -> {Str(SomeModel, 6), Str(<< >>, 0), Num(100)}
         [] f \in {"file_path", "image_path", "audio_path"} -> {Undef, Bool, Str(<< >>, 0)}
         [] f = "mask_path" -> {Str(<< >>, 0), Bool}
         [] f = "save_path" -> {Str(<< >>, 0), Bool}
         [] f = "effort" -> { Str(e, 3) : e \in Efforts } \cup {Str(<<"max">>, 3), Num(100)}
         [] f = "size" -> {Str(<<"1024x1024">>, 9), Str(<<"512x512">>, 7), Bool}
         [] f = "quality" -> {Str(<<"high">>, 4), Str(<<"ultra">>, 5), Bool}
         [] f = "voice" -> {Str(<<"nova">>, 4), Str(<<"robot">>, 5), Bool}
         [] f = "format" -> {Str(<<"wav">>, 3), Str(<<"ogg">>, 3), Bool}
         [] f = "n" -> {Num(100), Num(200), Num(1000), Num(0), Num(1100), Num(150),
                        Str(<<"2">>, 1)}
         [] f = "speed" -> {Num(25), Num(400), Num(24), Num(401), Bool}
         [] f = "urls" -> {Undef, Bool, Arr(0, "string"), Arr(20, "string"),
                           Arr(21, "string"), Arr(2, "number")}
         [] f = "file_ids" -> {Arr(0, "string"), Arr(2, "string"), Arr(1, "number"), Bool}
         [] OTHER -> {}

Bags(name) ==
    Bases(name) \cup
    UNION { UNION { { [b EXCEPT ![f] = x] : x \in Candidates(name, f) } :
                    f \in FieldNames(name) } : b \in Bases(name) }

UnknownName == "frobnicate"

Requests ==
    UNION { { [name |-> n, arguments |-> b] : b \in Bags(n) } :
            n \in ToolNames \cup {UnknownName} }

-----------------------------------------------------------------------------
(* Upstream responses and the response extractors *)

Part(type, text, annotations) == [type |-> type, text |-> text, annotations |-> annotations]
Ann(type, title, url) == [type |-> type, title |-> title, url |-> url]
Item(type, content, summary, code, results) ==
    [type |-> type, content |-> content, summary |-> summary, code |-> code,
     results |-> results]
Message(content) == Item("message", content, << >>, << >>, << >>)

UrlA == <<"https://a.example">>
UrlB == <<"https://b.example">>

AnswerResponse ==
    [output |-> <<
        Item("web_search_call", << >>, << >>, << >>, << >>),
        Message(<< Part("output_text", <<"The answer ">>,
                        << Ann("url_citation", <<"Site A">>, UrlA),
                           Ann("file_citation", <<"File">>, UrlB),
                           Ann("url_citation", << >>, UrlB) >>),
                   Part("refusal", <<"no">>, << >>) >>),
        Message(<< Part("output_text", <<"is 4">>,
                        << Ann("url_citation", <<"Site A again">>, UrlA) >>) >>) >>]

ToolResponse ==
    [output |-> <<
        Item("reasoning", << >>,
             << Part("summary_text", <<"think">>, << >>),
                Part("other", <<"skip">>, << >>),
                Part("summary_text", <<" more">>, << >>) >>, << >>, << >>),
        Item("code_interpreter_call", << >>, << >>, <<"print(2+2)">>,
             << Part("logs", <<"4">>, << >>), Part("image", <<"png">>, << >>) >>),
        Message(<< Part("output_text", <<"done">>, << >>) >>),
        Item("code_interpreter_call", << >>, << >>, <<"print(1)">>,
             << Part("logs", <<"1">>, << >>) >>) >>]

EmptyResponse == [output |-> << >>]

Responses == {AnswerResponse, ToolResponse, EmptyResponse}

\* responses of a web search: up to MaxCitations url_citation annotations,
\* the first on the output text of one message item, the others on the
\* output text of a second one; a title may be absent
MaxCitations == 3

\* responses of a code execution: call items whose logs results may be empty
\* (a run that printed nothing), before or after a non-empty one
LogResponse(logs) ==
    [output |-> <<
        Item("code_interpreter_call", << >>, << >>, <<"run()">>,
             [k \in 1..Len(logs) |-> Part("logs", logs[k], << >>)]),
        Message(<< Part("output_text", <<"ran">>, << >>) >>) >>]

LogResponses == { LogResponse(<< << >>, <<"4">> >>), LogResponse(<< <<"4">>, << >> >>) }

CitedAnns ==
    { Ann("url_citation", t, u) : t \in {<<"Site A">>, << >>},
                                  u \in {UrlA, UrlB} }

CitationResponse(anns) ==
    [output |-> <<
        Item("web_search_call", << >>, << >>, << >>, << >>),
        Message(<< Part("output_text", <<"Found. ">>,
                        IF anns = << >> THEN << >> ELSE <<anns[1]>>) >>),
        Message(<< Part("output_text", <<"Details.">>,
                        IF anns = << >> THEN << >> ELSE Tail(anns)) >>) >>]

CitationResponses ==
    { CitationResponse(anns) : anns \in UNION { [1..n -> CitedAnns] : n \in 0..MaxCitations } }

RECURSIVE PartsText_any_type(_, _)
PartsText_any_type(parts, type) ==
    IF parts = << >> THEN << >>
    ELSE parts[1].text \o PartsText_any_type(Tail(parts), type)

\* the texts of the parts of one type, in array order, with no separator
RECURSIVE PartsText(_, _)
PartsText(parts, type) ==
    IF parts = << >> THEN << >>
    ELSE (IF parts[1].type = type THEN parts[1].text ELSE << >>)
         \o PartsText(Tail(parts), type)

RECURSIVE ItemsText(_)
ItemsText(output) ==
    IF output = << >> THEN << >>
    ELSE (IF output[1].type = "message" THEN PartsText(output[1].content, "output_text")
          ELSE << >>)
         \o ItemsText(Tail(output))

extractText(response) == ItemsText(response.output)

RECURSIVE AnnCitations(_)
AnnCitations(anns) ==
    IF anns = << >> THEN << >>
    ELSE (IF anns[1].type = "url_citation"
          THEN << [title |-> IF anns[1].title # << >> THEN anns[1].title ELSE <<"Untitled">>,
                   url |-> anns[1].url] >>
          ELSE << >>)
         \o AnnCitations(Tail(anns))

RECURSIVE PartsCitations(_)
PartsCitations(parts) ==
    IF parts = << >> THEN << >>
    ELSE (IF parts[1].type = "output_text" THEN AnnCitations(parts[1].annotations)
          ELSE << >>)
         \o PartsCitations(Tail(parts))

RECURSIVE ItemsCitations(_)
ItemsCitations(output) ==
    IF output = << >> THEN << >>
    ELSE (IF output[1].type = "message" THEN PartsCitations(output[1].content) ELSE << >>)
         \o ItemsCitations(Tail(output))

Dedup_keep_all(citations, seen) == citations

\* citations.filter(c => !seen.has(c.url) ...)
RECURSIVE Dedup(_, _)
Dedup(citations, seen) ==
    IF citations = << >> THEN << >>
    ELSE IF citations[1].url \in seen THEN Dedup(Tail(citations), seen)
    ELSE <<citations[1]>> \o Dedup(Tail(citations), seen \cup {citations[1].url})

extractSearchResponse(response) ==
    [text |-> extractText(response),
     citations |-> Dedup(ItemsCitations(response.output), {})]

extractUrlFetchResponse(response) ==
    LET searchResp == extractSearchResponse(response)
    IN [text |-> searchResp.text, citations |-> searchResp.citations]

RECURSIVE ReasoningText_unseparated(_)
ReasoningText_unseparated(output) ==
    IF output = << >> THEN << >>
    ELSE PartsText(output[1].summary, "summary_text")
         \o PartsText(output[1].content, "output_text")
         \o ReasoningText_unseparated(Tail(output))

\* reasoning += s.text for the summary_text fragments of the reasoning items
RECURSIVE ReasoningText(_)
ReasoningText(output) ==
    IF output = << >> THEN << >>
    ELSE (IF output[1].type = "reasoning" THEN PartsText(output[1].summary, "summary_text")
          ELSE << >>)
         \o ReasoningText(Tail(output))

extractReasoningResponse(response) ==
    [text |-> ItemsText(response.output), reasoning |-> ReasoningText(response.output)]

\* acc += (acc ? '\n' : '') + more
JoinLine(acc, more) == IF acc # << >> THEN acc \o <<"\n">> \o more ELSE more

RECURSIVE LogsText(_, _)
LogsText(results, acc) ==
    IF results = << >> THEN acc
    ELSE LogsText(Tail(results),
                  IF results[1].type = "logs" THEN JoinLine(acc, results[1].text) ELSE acc)

RECURSIVE CodeAndOutput(_, _, _)
CodeAndOutput(output, code, out) ==
    IF output = << >> THEN [code |-> code, output |-> out]
    ELSE IF output[1].type = "code_interpreter_call"
    THEN CodeAndOutput(Tail(output),
                       IF output[1].code # << >> THEN JoinLine(code, output[1].code) ELSE code,
                       LogsText(output[1].results, out))
    ELSE CodeAndOutput(Tail(output), code, out)

extractCodeExecutionResponse(response) ==
    LET co == CodeAndOutput(response.output, << >>, << >>)
    IN [text |-> ItemsText(response.output), code |-> co.code, output |-> co.output]

\* images.generate / images.edit responses: data with and without b64_json
Img(b64, revised) == [b64_json |-> b64, revised_prompt |-> revised]
ImageA == Img(<<"AAAA">>, <<"a cat">>)
ImageB == Img(<<"BBBB">>, << >>)
ImageUrlOnly == Img(<< >>, << >>)

ImageResponses ==
    { [data |-> d] : d \in { << >>, <<ImageA>>, <<ImageA, ImageB>>, <<ImageUrlOnly>>,
                             <<ImageUrlOnly, ImageB>> } }

KeptImages_all(data) ==
    [i \in 1..Len(data) |-> [b64 |-> data[i].b64_json, revisedPrompt |-> data[i].revised_prompt]]

\* the images the adapter keeps: those with b64_json
RECURSIVE KeptImages(_)
KeptImages(data) ==
    IF data = << >> THEN << >>
    ELSE (IF data[1].b64_json # << >>
          THEN << [b64 |-> data[1].b64_json, revisedPrompt |-> data[1].revised_prompt] >>
          ELSE << >>)
         \o KeptImages(Tail(data))

FileObjects == { [id |-> <<"file-abc123">>] }
SpeechResponses == { [body |-> "stream"] }
AudioBuffers == { [bytes |-> <<"ID3">>, length |-> 2048] }
Transcriptions == { [text |-> <<"hello world">>], [text |-> << >>] }

-----------------------------------------------------------------------------
(* Upstream requests built by the adapter operations *)

CODE_REVIEW_PROMPT == <<"CODE_REVIEW_PROMPT">>
BRAINSTORM_PROMPT == <<"BRAINSTORM_PROMPT">>
EXPLAIN_PROMPT == <<"EXPLAIN_PROMPT">>
SEARCH_WEB_PROMPT == <<"SEARCH_WEB_PROMPT">>
CODE_EXECUTION_PROMPT == <<"CODE_EXECUTION_PROMPT">>
URL_CONTEXT_PROMPT == <<"URL_CONTEXT_PROMPT">>

Content(type, text) == [type |-> type, text |-> text]
Block(role, content) == [role |-> role, content |-> content]

Input_user_first(systemPrompt, userText) ==
    << Block("user", <<Content("text", userText)>>) >>
    \o (IF systemPrompt # << >> THEN << Block("developer", <<Content("text", systemPrompt)>>) >>
        ELSE << >>)

\* input = []; if (systemPrompt) push developer; push user
Input(systemPrompt, userText) ==
    (IF systemPrompt # << >> THEN << Block("developer", <<Content("text", systemPrompt)>>) >>
     ELSE << >>)
    \o << Block("user", <<Content("text", userText)>>) >>

Req(model, input, tools, effort) ==
    [model |-> model, input |-> input, tools |-> tools, effort |-> effort]

Call(api, req) == [api |-> api, req |-> req, state |-> "pending"]

ModelOr_default_only(args, fallback) == fallback

\* input.model || fallback
ModelOr(args, fallback) == IF Truthy(args["model"]) THEN args["model"].v ELSE fallback

\* input.x || fallback, for a string argument
TextOr(x, fallback) == IF Truthy(x) THEN x.v ELSE fallback

UrlLines(n) == [i \in 1..n |-> "- url\n"]

uploadRoute_case_sensitive(filePath) ==
    IF extname(resolve(filePath)) \in UPLOAD_SUPPORTED_EXTENSIONS
    THEN "uploadViaFilesApi"
    ELSE "uploadViaInlineText"

\* the extension test of uploadFile
uploadRoute(filePath) ==
    IF toLowerCase(extname(resolve(filePath))) \in UPLOAD_SUPPORTED_EXTENSIONS
    THEN "uploadViaFilesApi"
    ELSE "uploadViaInlineText"

\* the adapter operation a tool's case calls
AdapterOp(name, args) ==
    CASE name \in {"ask", "code_review", "brainstorm", "explain"} -> "generate"
      [] name = "search_web" -> "searchWeb"
      [] name = "search_with_reasoning" -> "generateWithReasoning"
      [] name = "run_code" -> "executeCode"
      [] name = "fetch_url" -> "fetchUrl"
      [] name = "upload_file" -> uploadRoute(resolve(args["file_path"].v))
      [] name = "generate_image" -> "generateImage"
      [] name = "edit_image" -> "editImage"
      [] name = "analyze_image" -> "analyzeImage"
      [] name = "text_to_speech" -> "textToSpeech"
      [] name = "transcribe" -> "transcribe"

\* the `${base}` of a fenced inline file: extension without the dot, or 'text'
FenceTag(p) == IF extname(p) = "" THEN "text" ELSE toLowerCase(extname(p))

\* the first upstream call of the tool's adapter operation
FirstCall(name, args, cfg) ==
    CASE name = "ask" ->
           Call("responses.create",
                Req(ModelOr(args, cfg.defaultModel), Input(<< >>, args["prompt"].v), << >>, << >>))
      [] name = "code_review" ->
           Call("responses.create",
                Req(cfg.defaultModel,
                    Input(CODE_REVIEW_PROMPT,
                          <<"Please review this code with a focus on ">>
                          \o TextOr(args["focus"], <<"general">>) \o <<":\n\n[fence]\n">>
                          \o args["code"].v \o <<"\n[fence]\n\nProvide specific, actionable feedback">>),
                    << >>, << >>))
      [] name = "brainstorm" ->
           Call("responses.create",
                Req(cfg.defaultModel,
                    Input(BRAINSTORM_PROMPT,
                          <<"Brainstorm ideas about: ">> \o args["topic"].v
                          \o (IF Truthy(args["context"])
                              THEN <<"\n\nContext: ">> \o args["context"].v ELSE << >>)
                          \o <<"\n\nProvide creative ideas, alternatives, and considerations.">>),
                    << >>, << >>))
      [] name = "explain" ->
           Call("responses.create",
                Req(<<"gpt-4.1-mini">>,
                    Input(EXPLAIN_PROMPT, <<"Explain: ">> \o args["concept"].v), << >>, << >>))
      [] name = "search_web" ->
           Call("responses.create",
                Req(ModelOr(args, cfg.defaultModel),
                    Input(SEARCH_WEB_PROMPT, args["query"].v), <<"web_search_preview">>, << >>))
      [] name = "search_with_reasoning" ->
           Call("responses.create",
                Req(ModelOr(args, <<"o4-mini">>), Input(<< >>, args["prompt"].v), << >>,
                    TextOr(args["effort"], <<"high">>)))
      [] name = "run_code" ->
           Call("responses.create",
                Req(ModelOr(args, cfg.defaultModel),
                    Input(CODE_EXECUTION_PROMPT, args["prompt"].v), <<"code_interpreter">>, << >>))
      [] name = "fetch_url" ->
           Call("responses.create",
                Req(ModelOr(args, cfg.defaultModel),
                    Input(URL_CONTEXT_PROMPT,
                          args["prompt"].v \o <<"\n\nURLs to analyze:\n">>
                          \o UrlLines(args["urls"].len)),
                    <<"web_search_preview">>, << >>))
      [] name = "upload_file" ->
           LET abs == resolve(resolve(args["file_path"].v))
           IN IF uploadRoute(resolve(args["file_path"].v)) = "uploadViaFilesApi"
              THEN Call("files.create", Req(<< >>, << >>, << >>, << >>))
              ELSE Call("responses.create",
                        Req(ModelOr(args, cfg.defaultModel),
                            Input(<< >>,
                                  <<"File: ">> \o basename(abs) \o <<"\n\n[fence]", FenceTag(abs), "\n",
                                    "<file content>", "\n[fence]\n\n">>
                                  \o TextOr(args["query"],
                                            <<"Analyze this file and provide a detailed summary.">>)),
                            << >>, << >>))
      [] name = "generate_image" ->
           Call("images.generate", Req(<<"gpt-image-1.5">>, << >>, << >>, << >>))
      [] name = "edit_image" ->
           Call("images.edit", Req(<<"gpt-image-1.5">>, << >>, << >>, << >>))
      [] name = "analyze_image" ->
           Call("responses.create",
                Req(ModelOr(args, cfg.defaultModel),
                    << Block("user",
                             << Content("input_image", <<"data:<mime>;base64,<image>">>),
                                Content("input_text",
                                        TextOr(args["prompt"],
                                               <<"Describe this image in detail">>)) >>) >>,
                    << >>, << >>))
      [] name = "text_to_speech" ->
           Call("audio.speech.create",
                Req(ModelOr(args, <<"gpt-4o-mini-tts">>), << >>, << >>, << >>))
      [] name = "transcribe" ->
           Call("audio.transcriptions.create",
                Req(ModelOr(args, <<"whisper-1">>), << >>, << >>, << >>))

\* the model call uploadViaFilesApi makes for the query, once the file is created
QueryCall(args, cfg, fileId) ==
    Call("responses.create",
         Req(ModelOr(args, cfg.defaultModel),
             << Block("user", << Content("input_file", fileId),
                                 Content("input_text", args["query"].v) >>) >>,
             << >>, << >>))

\* response.arrayBuffer() of textToSpeech
BodyCall == Call("response.arrayBuffer", Req(<< >>, << >>, << >>, << >>))

\* what an upstream call of operation opname resolves with (url citations
\* come with the web search tool)
Payloads(api, opname) ==
    CASE api = "responses.create" ->
           Responses \cup (IF opname \in {"searchWeb", "fetchUrl"} THEN CitationResponses ELSE {})
                     \cup (IF opname = "executeCode" THEN LogResponses ELSE {})
      [] api = "files.create" -> FileObjects
      [] api \in {"images.generate", "images.edit"} -> ImageResponses
      [] api = "audio.speech.create" -> SpeechResponses
      [] api = "response.arrayBuffer" -> AudioBuffers
      [] api = "audio.transcriptions.create" -> Transcriptions

-----------------------------------------------------------------------------
(* The timeout race *)

TimeoutMultiplier_vision_light(opname) ==
    CASE opname = "generate" -> 1
      [] opname = "analyzeImage" -> 1
      [] opname = "textToSpeech" -> 2
      [] opname = "generateWithReasoning" -> 5
      [] OTHER -> 3

\* the factor of this.timeout in the operation's timeoutPromise(...) argument
TimeoutMultiplier(opname) ==
    CASE opname = "generate" -> 1
      [] opname \in {"analyzeImage", "textToSpeech"} -> 2
      [] opname \in {"searchWeb", "executeCode", "fetchUrl", "uploadViaFilesApi",
                     "uploadViaInlineText", "generateImage", "editImage", "transcribe"} -> 3
      [] opname = "generateWithReasoning" -> 5

\* timeoutPromise(ms): a timer that rejects with the sentinel when it fires
timeoutPromise(ms, opname) == [ms |-> ms, state |-> "armed", op |-> opname]

\* whether the first call of the operation is raced against a timer
\* (uploadViaFilesApi awaits files.create alone)
FirstCallRaced(opname) == opname # "uploadViaFilesApi"

\* What the operation's promise rejects with when `error` is raised at one of
\* its awaits.  uploadFile returns the promise of uploadViaFilesApi /
\* uploadViaInlineText without awaiting it, so a rejection of that promise
\* settles uploadFile's promise directly and its catch block is not run.
adapterCatch(opname, error) ==
    IF opname \in {"uploadViaFilesApi", "uploadViaInlineText"}
    THEN error
    ELSE handleError(error)

\* TRUE when adapterCatch passes the failure through handleError
CatchClassifies(opname) == adapterCatch(opname, NewError(TimeoutSentinel)).message = TimeoutText

-----------------------------------------------------------------------------
(* Replies of the CallTool handler *)

\* the timestamps new Date() may give: 0..MaxStamp
MaxStamp == 1

TextPart(text) == [type |-> "text", text |-> text, data |-> << >>]
ImagePart(data) == [type |-> "image", text |-> << >>, data |-> data]

Reply(content, isError) == [content |-> content, isError |-> isError]

\* the catch of the handler: error.message || 'An error occurred'
ErrorReply(error) ==
    Reply(<< TextPart(IF error.message # << >> THEN error.message
                      ELSE <<"An error occurred">>) >>, TRUE)

NoMissingFile(name, args, ex) == << >>

\* the fs.existsSync checks of upload_file, edit_image, analyze_image and
\* transcribe: the text of the isError reply returned, << >> when all exist
MissingFile(name, args, ex) ==
    CASE name = "upload_file" /\ resolve(args["file_path"].v) \notin ex ->
           <<"File not found: ">> \o resolve(args["file_path"].v)
      [] name = "edit_image" /\ resolve(args["image_path"].v) \notin ex ->
           <<"Source image not found: ">> \o resolve(args["image_path"].v)
      [] name = "edit_image" /\ resolve(args["image_path"].v) \in ex
           /\ Truthy(args["mask_path"]) /\ resolve(args["mask_path"].v) \notin ex ->
           <<"Mask image not found: ">> \o resolve(args["mask_path"].v)
      [] name = "analyze_image" /\ resolve(args["image_path"].v) \notin ex ->
           <<"Image not found: ">> \o resolve(args["image_path"].v)
      [] name = "transcribe" /\ resolve(args["audio_path"].v) \notin ex ->
           <<"Audio file not found: ">> \o resolve(args["audio_path"].v)
      [] OTHER -> << >>

\* the paths an invocation names as inputs, resolved
InputPaths(name, args) ==
    { resolve(args[f].v) : f \in { g \in FieldNames(name) \cap
                                          {"file_path", "image_path", "mask_path", "audio_path"} :
                                    args[g].k = "string" } }

RECURSIVE SourceLines(_)
SourceLines(citations) ==
    IF citations = << >> THEN << >>
    ELSE <<"- [">> \o citations[1].title \o <<"](">> \o citations[1].url \o <<")\n">>
         \o SourceLines(Tail(citations))

WithSources_always_section(result) ==
    result.text \o <<"\n\n---\n**Sources:**\n">> \o SourceLines(result.citations)

WithSources(result) ==
    result.text \o (IF Len(result.citations) > 0
                    THEN <<"\n\n---\n**Sources:**\n">> \o SourceLines(result.citations)
                    ELSE << >>)

\* getAutoSavePath(outputDir, prefix, ext) at timestamp ts
getAutoSavePath(outputDir, prefix, ext, ts) ==
    resolve(outputDir \o <<prefix, "-", ToString(ts), ".", ext>>)

\* the save path of image i (0-based) of count images
ImageSavePath(args, cfg, i, count, ts) ==
    IF Truthy(args["save_path"]) /\ count = 1 THEN args["save_path"].v
    ELSE IF Truthy(args["save_path"])
    THEN LET p == args["save_path"].v
             ext == extname(p)
             \* save_path.slice(0, -ext.length): empty when ext is ''
             base == IF ext = "" THEN << >> ELSE SubSeq(p, 1, Len(p) - 1)
         IN base \o <<"_", ToString(i)>> \o (IF ext = "" THEN << >> ELSE <<ext>>)
    ELSE getAutoSavePath(cfg.outputDir, "generated", "png", ts)

RevisedSuffix(img) ==
    IF img.revisedPrompt # << >> THEN <<"\nRevised prompt: ">> \o img.revisedPrompt ELSE << >>

RECURSIVE ImageLoop(_, _, _, _, _)
\* the for loop of generate_image from index i: [content, saved]
ImageLoop(images, args, cfg, stamps, i) ==
    IF i >= Len(images) THEN [content |-> << >>, saved |-> << >>]
    ELSE LET img == images[i + 1]
             savePath == ImageSavePath(args, cfg, i, Len(images), stamps[i + 1])
             rest == ImageLoop(images, args, cfg, stamps, i + 1)
         IN [content |-> << ImagePart(img.b64),
                            TextPart(<<"Image ", ToString(i + 1), " saved to: ">> \o savePath
                                     \o RevisedSuffix(img)) >> \o rest.content,
             saved |-> << [path |-> savePath, data |-> img.b64] >> \o rest.saved]

NoImageText == <<"No image was generated. The model may have declined the request or encountered a safety filter. Try rephrasing your prompt.">>
NoEditedImageText == <<"No edited image was generated. The model may have declined the request or encountered a safety filter. Try rephrasing your prompt.">>

\* The rest of the tool's case once its adapter operation returned `payload`
\* (for upload_file: fileId is the id kept from files.create, or 'inline'):
\* [reply, saved]
FinalReply(name, args, cfg, opname, payload, fileId, stamps) ==
    CASE name \in {"ask", "code_review", "brainstorm", "explain", "analyze_image"} ->
           [reply |-> Reply(<<TextPart(extractText(payload))>>, FALSE), saved |-> << >>]
      [] name = "search_web" ->
           [reply |-> Reply(<<TextPart(WithSources(extractSearchResponse(payload)))>>, FALSE),
            saved |-> << >>]
      [] name = "fetch_url" ->
           [reply |-> Reply(<<TextPart(WithSources(extractUrlFetchResponse(payload)))>>, FALSE),
            saved |-> << >>]
      [] name = "search_with_reasoning" ->
           LET result == extractReasoningResponse(payload)
           IN [reply |-> Reply(<<TextPart(
                   (IF result.reasoning # << >>
                    THEN <<"<reasoning>\n">> \o result.reasoning \o <<"\n</reasoning>\n\n">>
                    ELSE << >>) \o result.text)>>, FALSE),
               saved |-> << >>]
      [] name = "run_code" ->
           LET result == extractCodeExecutionResponse(payload)
           IN [reply |-> Reply(<<TextPart(
                   result.text
                   \o (IF result.code # << >>
                       THEN <<"\n\n[fence]python\n">> \o result.code \o <<"\n[fence]">> ELSE << >>)
                   \o (IF result.output # << >>
                       THEN <<"\n\n**Output:**\n[fence]\n">> \o result.output \o <<"\n[fence]">>
                       ELSE << >>))>>, FALSE),
               saved |-> << >>]
      [] name = "upload_file" ->
           LET fileName == basename(resolve(resolve(args["file_path"].v)))
               text == IF opname = "uploadViaFilesApi" /\ ~Truthy(args["query"])
                       THEN <<"File '">> \o fileName \o <<"' uploaded successfully.\nFile ID: ">>
                            \o fileId \o <<"\n\nUse this file_id with the 'ask' tool's file_ids parameter to ask questions about it.">>
                       ELSE extractText(payload)
           IN [reply |-> Reply(<<TextPart(text \o <<"\n\n---\n*File: ">> \o fileName
                                          \o <<" (ID: ">> \o fileId \o <<")*">>)>>, FALSE),
               saved |-> << >>]
      [] name = "generate_image" ->
           LET images == KeptImages(payload.data)
               loop == ImageLoop(images, args, cfg, stamps, 0)
           IN IF Len(images) = 0
              THEN [reply |-> Reply(<<TextPart(NoImageText)>>, TRUE), saved |-> << >>]
              ELSE [reply |-> Reply(loop.content, FALSE), saved |-> loop.saved]
      [] name = "edit_image" ->
           LET images == KeptImages(payload.data)
               image == images[1]
               savePath == IF Truthy(args["save_path"]) THEN args["save_path"].v
                           ELSE getAutoSavePath(cfg.outputDir, "edited", "png", stamps[1])
           IN IF Len(images) = 0
              THEN [reply |-> Reply(<<TextPart(NoEditedImageText)>>, TRUE), saved |-> << >>]
              ELSE [reply |-> Reply(<< ImagePart(image.b64),
                                       TextPart(<<"Edited image saved to: ">> \o savePath
                                                \o RevisedSuffix(image)) >>, FALSE),
                    saved |-> << [path |-> savePath, data |-> image.b64] >>]
      [] name = "text_to_speech" ->
           LET format == TextOr(args["format"], <<"mp3">>)
               savePath == IF Truthy(args["save_path"]) THEN args["save_path"].v
                           ELSE getAutoSavePath(cfg.outputDir, "speech", format[1], stamps[1])
           IN [reply |-> Reply(<<TextPart(<<"Audio saved to: ">> \o savePath
                                          \o <<"\nVoice: ">> \o TextOr(args["voice"], <<"alloy">>)
                                          \o <<"\nFormat: ">> \o format
                                          \o <<"\nSize: ", ToString(payload.length \div 1024), " KB">>)>>,
                               FALSE),
               saved |-> << [path |-> savePath, data |-> payload.bytes] >>]
      [] name = "transcribe" ->
           [reply |-> Reply(<<TextPart(<<"**Transcription:**\n\n">> \o payload.text)>>, FALSE),
            saved |-> << >>]

\* nondecreasing timestamps for the saves of one reply
Stamps == { st \in [1..2 -> 0..MaxStamp] : st[1] <= st[2] }

\* the timestamps to try for an invocation: new Date() is read only by
\* getAutoSavePath, which the media tools call when no save_path is given
StampsRead(name, args) ==
    IF name \in {"generate_image", "edit_image", "text_to_speech"} /\ ~Truthy(args["save_path"])
    THEN Stamps
    ELSE { [i \in 1..2 |-> 0] }

-----------------------------------------------------------------------------
(* State *)

NoRequest == [name |-> "", arguments |-> << >>]
NoAwait == [call |-> 0, timer |-> 0]
NotCaught == [error |-> NoFailure, origin |-> "none"]
NoResponse == [none |-> TRUE]

\* a JavaScript number: an integer or NaN
JsNum(n) == [nan |-> FALSE, n |-> n]
JsNaN == [nan |-> TRUE, n |-> 0]

\* a * m for a number a and an integer m
Times(a, m) == IF a.nan THEN JsNaN ELSE JsNum(a.n * m)

\* a <= 0: false when a is NaN
LeqZero(a) == ~a.nan /\ a.n <= 0

\* an environment variable: unset, or set to a text (a sequence of characters)
Unset == [set |-> FALSE, v |-> << >>]
SetTo(v) == [set |-> TRUE, v |-> v]

\* `x ? ... : ...` / `!x` on an environment variable: unset and '' are falsy
EnvTruthy(x) == x.set /\ x.v # << >>

DigitChars == <<"0", "1", "2", "3", "4", "5", "6", "7", "8", "9">>
IsDigit(c) == \E d \in 1..10 : DigitChars[d] = c
DigitValue(c) == (CHOOSE d \in 1..10 : DigitChars[d] = c) - 1

\* the value of the longest prefix of digits of str, from accumulator acc
RECURSIVE DigitsPrefix(_, _)
DigitsPrefix(str, acc) ==
    IF str = << >> \/ ~IsDigit(str[1]) THEN acc
    ELSE DigitsPrefix(Tail(str), 10 * acc + DigitValue(str[1]))

\* parseInt(str, 10): optional sign, then the leading digits; NaN without one
parseInt(str) ==
    LET neg == str # << >> /\ str[1] = "-"
        body == IF str # << >> /\ str[1] \in {"-", "+"} THEN Tail(str) ELSE str
    IN IF body = << >> \/ ~IsDigit(body[1]) THEN JsNaN
       ELSE JsNum((IF neg THEN -1 ELSE 1) * DigitsPrefix(body, 0))

DefaultTimeout == 60000

\* loadConfig() with OPENAI_DEFAULT_MODEL and OPENAI_OUTPUT_DIR unset:
\* the Config, or the Error thrown
loadConfig(e) ==
    LET timeout == IF EnvTruthy(e.OPENAI_TIMEOUT) THEN parseInt(e.OPENAI_TIMEOUT.v)
                   ELSE JsNum(DefaultTimeout)
    IN IF ~EnvTruthy(e.OPENAI_API_KEY)
       THEN [ok |-> FALSE,
             error |-> NewError(<<"OpenAI API key not configured. Please set the OPENAI_API_KEY environment variable.">>)]
       ELSE IF LeqZero(timeout)
       THEN [ok |-> FALSE, error |-> NewError(<<"OPENAI_TIMEOUT must be a positive number">>)]
       ELSE [ok |-> TRUE,
             config |-> [apiKey |-> e.OPENAI_API_KEY.v, defaultModel |-> <<"gpt-4.1">>,
                         timeout |-> timeout, outputDir |-> <<"generated-media/">>]]

NoConfig == [none |-> TRUE]

\* the environments the process is started in
ApiKeys == {Unset, SetTo(<< >>), SetTo(<<"s", "k", "-", "1">>)}
TimeoutTexts ==
    {Unset, SetTo(<<"0">>), SetTo(<<"-", "5">>), SetTo(<<"a", "b", "c">>)}
    \cup { SetTo(<<DigitChars[t + 1]>>) : t \in 1..MaxTimeout }
Envs == { [OPENAI_API_KEY |-> k, OPENAI_TIMEOUT |-> t] : k \in ApiKeys, t \in TimeoutTexts }

Init ==
    /\ env \in Envs
    /\ exitStatus = << >>
    /\ transport = "none"
    /\ config = NoConfig
    /\ pc = "start"
    /\ request = NoRequest
    /\ exists = {}
    /\ op = ""
    /\ calls = << >>
    /\ timers = << >>
    /\ awaiting = NoAwait
    /\ held = << >>
    /\ awaited = NoResponse
    /\ caught = NotCaught
    /\ classified = FALSE
    /\ replies = << >>
    /\ saved = << >>

\* this.client.<api>(...): one upstream request is sent
IssueCall_twice(cs, call) == Append(Append(cs, call), call)

IssueCall(cs, call) == Append(cs, call)

\* the handler returns `reply`: the invocation is over
ReturnReply(reply, files) ==
    /\ pc' = "replied"
    /\ op' = ""
    /\ awaiting' = NoAwait
    /\ replies' = Append(replies, reply)
    /\ saved' = saved \o files

\* `error` is raised at the await of operation op (a rejected upstream call or
\* the timer): the operation rejects, the handler's catch builds the reply
RaiseInOp(error, origin) ==
    /\ caught' = [error |-> error, origin |-> origin]
    /\ classified' = CatchClassifies(op)
    /\ ReturnReply(ErrorReply(adapterCatch(op, error)), << >>)
    /\ UNCHANGED <<held, awaited>>

\* the handler is suspended at an await that the i-th upstream call settles
AwaitsCall(i) == pc = "running" /\ awaiting.call = i

AwaitsTimer_any(j) == TRUE

\* the handler is suspended at a race that the j-th timer settles; once the
\* race is settled the timer's rejection is dropped
AwaitsTimer(j) == pc = "running" /\ awaiting.timer = j

-----------------------------------------------------------------------------
(* Actions *)

\* main(): load the configuration, build the client and the server, connect
\* the transport; a thrown error is logged and the process exits with 1
main ==
    LET loaded == loadConfig(env)
    IN
    /\ pc = "start"
    /\ IF loaded.ok
       THEN /\ config' = loaded.config
            /\ transport' = "connected"
            /\ pc' = "idle"
            /\ UNCHANGED exitStatus
       ELSE /\ exitStatus' = <<1>>
            /\ pc' = "exited"
            /\ UNCHANGED <<config, transport>>
    /\ UNCHANGED <<env, request, exists, op, calls, timers, awaiting, held, awaited,
                   caught, classified, replies, saved>>

\* The CallTool handler runs from the request to its first await: parse,
\* existence checks, the adapter operation up to its upstream call
CallTool(req, ex) ==
    LET name == req.name
        args == req.arguments
        issues == parse(name, args)
    IN
    /\ pc = "idle"
    /\ request' = req
    /\ UNCHANGED <<env, exitStatus, transport, config, held, awaited>>
    /\ IF name \notin ToolNames
       THEN /\ ex = {}
            /\ exists' = ex
            /\ caught' = [error |-> UnknownTool(name), origin |-> "local"]
            /\ classified' = FALSE
            /\ ReturnReply(ErrorReply(UnknownTool(name)), << >>)
            /\ UNCHANGED <<calls, timers>>
       ELSE IF issues # << >>
       THEN /\ ex = {}
            /\ exists' = ex
            /\ caught' = [error |-> ZodError(issues), origin |-> "local"]
            /\ classified' = FALSE
            /\ ReturnReply(ErrorReply(ZodError(issues)), << >>)
            /\ UNCHANGED <<calls, timers>>
       ELSE /\ ex \subseteq InputPaths(name, args)
            /\ exists' = ex
            /\ caught' = NotCaught
            /\ classified' = FALSE
            /\ IF MissingFile(name, args, ex) # << >>
               THEN /\ ReturnReply(Reply(<<TextPart(MissingFile(name, args, ex))>>, TRUE), << >>)
                    /\ UNCHANGED <<calls, timers>>
               ELSE LET opname == AdapterOp(name, args)
                    IN /\ pc' = "running"
                       /\ op' = opname
                       /\ calls' = IssueCall(calls, FirstCall(name, args, config))
                       /\ timers' = IF FirstCallRaced(opname)
                                    THEN Append(timers,
                                                timeoutPromise(Times(config.timeout, TimeoutMultiplier(opname)),
                                                               opname))
                                    ELSE timers
                       /\ awaiting' = [call |-> Len(calls'), timer |-> Len(timers')]
                       /\ UNCHANGED <<replies, saved>>

\* An upstream call resolves.  If the handler awaits it, the handler goes on:
\* to the next upstream call of the operation, or to the reply
UpstreamResolve(i, payload, stamps) ==
    LET settled == [calls EXCEPT ![i].state = "resolved"]
        name == request.name
        args == request.arguments
    IN
    /\ i \in 1..Len(calls)
    /\ calls[i].state = "pending"
    /\ payload \in Payloads(calls[i].api, op)
    /\ UNCHANGED <<env, exitStatus, transport, config, request, exists>>
    /\ IF AwaitsCall(i)
       THEN /\ UNCHANGED <<caught, classified>>
            /\ awaited' = payload
            /\ IF calls[i].api = "files.create" /\ Truthy(args["query"])
               THEN \* uploadViaFilesApi: the model call for the query, raced
                    /\ held' = payload.id
                    /\ calls' = IssueCall(settled, QueryCall(args, config, payload.id))
                    /\ timers' = Append(timers,
                                        timeoutPromise(Times(config.timeout, TimeoutMultiplier(op)), op))
                    /\ awaiting' = [call |-> Len(calls'), timer |-> Len(timers')]
                    /\ UNCHANGED <<pc, op, replies, saved>>
               ELSE IF calls[i].api = "audio.speech.create"
               THEN \* textToSpeech: await response.arrayBuffer(), not raced
                    /\ calls' = IssueCall(settled, BodyCall)
                    /\ awaiting' = [call |-> Len(calls'), timer |-> 0]
                    /\ UNCHANGED <<pc, op, timers, held, replies, saved>>
               ELSE LET fileId == IF op = "uploadViaInlineText" THEN <<"inline">>
                                  ELSE IF calls[i].api = "files.create" THEN payload.id
                                  ELSE held
                        out == FinalReply(name, args, config, op, payload, fileId, stamps)
                    IN /\ calls' = settled
                       /\ ReturnReply(out.reply, out.saved)
                       /\ UNCHANGED <<timers, held>>
       ELSE /\ calls' = settled
            /\ UNCHANGED <<pc, op, timers, awaiting, held, awaited, caught, classified,
                         replies, saved>>

\* An upstream call rejects with `failure`
UpstreamReject(i, failure) ==
    /\ i \in 1..Len(calls)
    /\ calls[i].state = "pending"
    /\ calls' = [calls EXCEPT ![i].state = "rejected"]
    /\ UNCHANGED <<env, exitStatus, transport, config, request, exists, timers>>
    /\ IF AwaitsCall(i)
       THEN RaiseInOp(failure, "upstream")
       ELSE UNCHANGED <<pc, op, awaiting, held, awaited, caught, classified, replies, saved>>

\* A timer fires: its promise rejects with Error('Request timeout')
TimerFire(j) ==
    /\ j \in 1..Len(timers)
    /\ timers[j].state = "armed"
    /\ timers' = [timers EXCEPT ![j].state = "fired"]
    /\ UNCHANGED <<env, exitStatus, transport, config, request, exists, calls>>
    /\ IF AwaitsTimer(j)
       THEN RaiseInOp(NewError(TimeoutSentinel), "timer")
       ELSE UNCHANGED <<pc, op, awaiting, held, awaited, caught, classified, replies, saved>>

\* The invocation is discarded after its reply; the server takes the next one
Finish ==
    /\ pc = "replied"
    /\ pc' = "idle"
    /\ request' = NoRequest
    /\ exists' = {}
    /\ calls' = << >>
    /\ timers' = << >>
    /\ held' = << >>
    /\ awaited' = NoResponse
    /\ caught' = NotCaught
    /\ classified' = FALSE
    /\ replies' = << >>
    /\ saved' = << >>
    /\ UNCHANGED <<env, exitStatus, transport, config, op, awaiting>>

Next ==
    \/ main
    \/ \E req \in Requests :
          \E ex \in SUBSET InputPaths(req.name, req.arguments) : CallTool(req, ex)
    \/ \E i \in 1..Len(calls), st \in StampsRead(request.name, request.arguments) :
          \E r \in Payloads(calls[i].api, op) : UpstreamResolve(i, r, st)
    \/ \E i \in 1..2, f \in Failures : UpstreamReject(i, f)
    \/ \E j \in 1..2 : TimerFire(j)
    \/ Finish

Spec == Init /\ [][Next]_vars

-----------------------------------------------------------------------------
(* Claims *)

\* the CallTool handler has taken an invocation
Handling == pc \in {"running", "replied"}

\* the text of the k-th reply of the invocation
ReplyText(k) == replies[k].content[1].text

Replied == pc = "replied" /\ Len(replies) = 1

\* the invocation ended on a failure raised at an await of its adapter
\* operation: a rejected upstream call or the timer
UpstreamFailed == Replied /\ caught.origin \in {"upstream", "timer"}

\* C1: whenever an upstream call fails or the timer wins, the isError reply
\* text is one of the classifier's six category messages, never the raw
\* message of the upstream exception or the raw sentinel 'Request timeout'.
C1_RepliesAreClassified ==
    UpstreamFailed =>
        /\ replies[1].isError
        /\ CategoryOf(ReplyText(1)) # ""
        /\ ReplyText(1) # caught.error.message
        /\ ReplyText(1) # TimeoutSentinel

\* the multiplier table as the claim gives it (0: not named by the claim)
C2_ClaimedMultiplier(opname) ==
    CASE opname = "generate" -> 1
      [] opname = "analyzeImage" -> 2
      [] opname = "textToSpeech" -> 2
      [] opname = "searchWeb" -> 3
      [] opname = "executeCode" -> 3
      [] opname = "fetchUrl" -> 3
      [] opname = "uploadViaFilesApi" -> 3
      [] opname = "uploadViaInlineText" -> 3
      [] opname = "transcribe" -> 3
      [] opname = "generateWithReasoning" -> 5
      [] OTHER -> 0

\* C2: every timer an adapter operation arms for its race has duration
\* exactly T x m, with m = 1 for generate, 2 for analyzeImage and
\* textToSpeech, 3 for searchWeb, executeCode, fetchUrl, file upload and
\* transcribe, 5 for generateWithReasoning; no timer has another multiplier.
C2_TimerDurations ==
    \A j \in 1..Len(timers) :
        (~config.timeout.nan /\ config.timeout.n > 0) =>
            /\ ~timers[j].ms.nan
            /\ C2_ClaimedMultiplier(timers[j].op) # 0
                  => timers[j].ms.n = config.timeout.n * C2_ClaimedMultiplier(timers[j].op)
            /\ timers[j].ms.n \in { config.timeout.n * m : m \in {1, 2, 3, 5} }

C2_Witness ==
    /\ pc = "running"
    /\ config.timeout = JsNum(DefaultTimeout)
    /\ Len(timers) = 1
    /\ timers[1].op = "analyzeImage"
    /\ timers[1].state = "armed"
    /\ timers[1].ms = JsNum(120000)

\* C3: a failure whose message equals the sentinel 'Request timeout' is
\* always reported as Timeout, whatever status or code it carries; in
\* particular whenever the timer settles first the caller receives the
\* Timeout category message.
C3_SentinelIsTimeout ==
    (UpstreamFailed /\ caught.error.message = TimeoutSentinel)
        => ReplyText(1) = TimeoutText

\* C4 as stated: every failure with status 401 or 403 is classified
\* AuthInvalid, for every message and code.
C4_AuthForEveryMessage ==
    (UpstreamFailed /\ classified /\ caught.error.status \in {401, 403})
        => CategoryOf(ReplyText(1)) = "AuthInvalid"

\* C4 (amended): every failure with status 401 or 403 whose message is not
\* the timeout sentinel is classified AuthInvalid, for every other message
\* (the fetch marker and the safety marker included) and every code.
C4_AuthUnlessSentinel ==
    (UpstreamFailed /\ classified /\ caught.error.status \in {401, 403}
       /\ caught.error.message # TimeoutSentinel)
        => ReplyText(1) = AuthText

C4_Witness ==
    /\ UpstreamFailed /\ classified
    /\ caught.error.status = 403
    /\ Includes(caught.error.message, FetchMarker)
    /\ caught.error.code = "ECONNREFUSED"
    /\ ReplyText(1) = AuthText

\* C5: the classifier maps every failure to exactly one category by
\* first-match precedence: sentinel, status 401/403, status 429, status 400
\* with the safety marker, connection code or fetch marker, otherwise Unknown.
C5_Precedence ==
    (UpstreamFailed /\ classified) =>
        LET e == caught.error
            cat == CategoryOf(ReplyText(1))
            isTimeout == e.message = TimeoutSentinel
            isAuth == e.status = 401 \/ e.status = 403
            isRate == e.status = 429
            isSafety == e.status = 400 /\ Includes(e.message, SafetyMarker)
            isNet == e.code \in {"ENOTFOUND", "ECONNREFUSED"} \/ Includes(e.message, FetchMarker)
        IN /\ cat \in {"Timeout", "AuthInvalid", "RateLimited", "ContentPolicyBlocked",
                       "NetworkUnreachable", "Unknown"}
           /\ isTimeout => cat = "Timeout"
           /\ (~isTimeout /\ isAuth) => cat = "AuthInvalid"
           /\ (~isTimeout /\ ~isAuth /\ isRate) => cat = "RateLimited"
           /\ (~isTimeout /\ ~isAuth /\ ~isRate /\ isSafety) => cat = "ContentPolicyBlocked"
           /\ (~isTimeout /\ ~isAuth /\ ~isRate /\ ~isSafety /\ isNet)
                 => cat = "NetworkUnreachable"
           /\ (~isTimeout /\ ~isAuth /\ ~isRate /\ ~isSafety /\ ~isNet) => cat = "Unknown"

C5_Witness ==
    /\ UpstreamFailed /\ classified
    /\ caught.error.status = 400
    /\ Includes(caught.error.message, SafetyMarker)
    /\ Includes(caught.error.message, FetchMarker)
    /\ caught.error.code = "ECONNREFUSED"
    /\ ReplyText(1) = SafetyText

\* the schema violations the claim lists, for one argument
C6_Violates(z, x) ==
    \/ ~z.opt /\ x.k = "undefined"                               \* missing required argument
    \/ x.k # "undefined" /\ x.k # (IF z.t = "enum" THEN "string" ELSE z.t)   \* wrong type
    \/ z.t = "array" /\ x.k = "array" /\ x.len > 0 /\ x.v # <<"string">>     \* wrong item type
    \/ z.t = "number" /\ x.k = "number" /\ z.int /\ x.num % 100 # 0          \* not an integer
    \/ z.t = "enum" /\ x.k = "string" /\ x.v \notin z.vals       \* value outside the enum
    \/ z.t = "number" /\ x.k = "number" /\ (x.num < z.min \/ x.num > z.max)  \* out of range
    \/ z.t = "string" /\ ~z.opt /\ x.k = "string" /\ x.len = 0   \* empty required string
    \/ z.t = "array" /\ ~z.opt /\ x.k = "array" /\ (x.len = 0 \/ x.len > 20) \* urls

C6_Invalid(req) ==
    \/ req.name \notin ToolNames
    \/ \E i \in 1..Len(Schema(req.name)) :
          C6_Violates(Schema(req.name)[i].z, req.arguments[Schema(req.name)[i].name])

\* C6: an invocation whose arguments violate the tool's schema, or that
\* names an unknown tool, gets an isError reply carrying the validation or
\* unknown-tool message, and no adapter operation, upstream call or timer is
\* started for it.
C6_InvalidNeverReachesAdapter ==
    (Handling /\ C6_Invalid(request)) =>
        /\ Replied
        /\ replies[1].isError
        /\ ReplyText(1) \in {ZodError(parse(request.name, request.arguments)).message,
                             <<"Unknown tool: ", request.name>>}
        /\ Len(ReplyText(1)) >= 2
        /\ calls = << >> /\ timers = << >> /\ op = "" /\ ~classified

C6_Witness ==
    /\ Replied
    /\ request.name = "fetch_url"
    /\ request.arguments["urls"] = Arr(21, "string")
    /\ replies[1].isError
    /\ ReplyText(1) = <<"[", "{code:", "too_big", ",path:", "urls", "}", "]">>
    /\ calls = << >>

\* C7: a string argument longer than the length ceiling the tool declares
\* is rejected locally with an isError reply and never reaches the adapter.
C7_LengthCeilingEnforced ==
    (Handling /\ request.name \in ToolNames
       /\ \E f \in FieldNames(request.name) :
             /\ inputSchemaMaxLength(request.name, f) # NoLimit
             /\ request.arguments[f].k = "string"
             /\ request.arguments[f].len > inputSchemaMaxLength(request.name, f))
        => (Replied /\ replies[1].isError /\ calls = << >>)

\* the input paths the invocation supplies that are checked for existence
C8_SuppliedPaths(req) ==
    CASE req.name = "upload_file" -> {req.arguments["file_path"].v}
      [] req.name = "edit_image" ->
           {req.arguments["image_path"].v}
           \cup (IF req.arguments["mask_path"].k = "string" /\ req.arguments["mask_path"].len > 0
                 THEN {req.arguments["mask_path"].v} ELSE {})
      [] req.name = "analyze_image" -> {req.arguments["image_path"].v}
      [] req.name = "transcribe" -> {req.arguments["audio_path"].v}
      [] OTHER -> {}

C8_Missing(req, ex) == { resolve(p) : p \in C8_SuppliedPaths(req) } \ ex

\* C8: for upload_file, edit_image (source and, when given, mask),
\* analyze_image and transcribe, if a supplied path does not exist the reply
\* is isError with a message naming the resolved path, no upstream call is
\* issued and the message does not go through the classifier.
C8_MissingFileIsLocal ==
    (Handling /\ ~C6_Invalid(request) /\ C8_Missing(request, exists) # {}) =>
        /\ Replied
        /\ replies[1].isError
        /\ \E p \in C8_Missing(request, exists) :
              /\ Len(ReplyText(1)) = 1 + Len(p)
              /\ SubSeq(ReplyText(1), 2, Len(ReplyText(1))) = p
              /\ p[1] = "/"
        /\ calls = << >> /\ timers = << >>
        /\ ~classified /\ CategoryOf(ReplyText(1)) = ""

C8_Witness ==
    /\ Replied
    /\ request.name = "edit_image"
    /\ resolve(request.arguments["image_path"].v) \in exists
    /\ request.arguments["image_path"].v = <<"img/", "cat", ".JPG">>
    /\ request.arguments["mask_path"].k = "string"
    /\ ReplyText(1) = <<"Mask image not found: ", "/", "img/", "mask", ".png">>
    /\ replies[1].isError
    /\ calls = << >>

\* C9: in every adapter operation the branch of the race that settles first
\* decides the outcome: the upstream call resolving gives the extracted
\* response, its rejecting gives the classified failure, the timer firing
\* gives Timeout; the loser is not cancelled and is not waited for.
C9_FirstSettlerDecides ==
    Replied =>
        /\ caught.origin = "timer" => (replies[1].isError /\ ReplyText(1) = TimeoutText)
        /\ caught.origin = "upstream"
              => (replies[1].isError /\ ReplyText(1) = handleError(caught.error).message)
        /\ (caught.origin = "none" /\ calls # << >>)
              => calls[Len(calls)].state = "resolved"
        /\ \A i \in 1..Len(calls) : calls[i].state \in {"pending", "resolved", "rejected"}
        /\ \A j \in 1..Len(timers) : timers[j].state \in {"armed", "fired"}

\* the upstream requests of the invocation sent to `api`
C10_Sent(api) == { i \in 1..Len(calls) : calls[i].api = api }

C10_Apis == {"responses.create", "files.create", "images.generate", "images.edit",
             "audio.speech.create", "audio.transcriptions.create"}

\* C10: no retry: within one invocation each upstream request is issued at
\* most once, after a failure or a timeout no further upstream request is
\* issued, and the failure is reported in exactly one reply.
C10_NoRetry ==
    /\ [](/\ \A api \in C10_Apis : Cardinality(C10_Sent(api)) <= 1
          /\ Len(replies) <= 1
          /\ caught.origin \in {"upstream", "timer"}
                => (Len(replies) = 1 /\ replies[1].isError /\ pc = "replied"))
    /\ [][caught.origin \in {"upstream", "timer"}
             => (Len(calls') <= Len(calls) /\ Len(replies') <= Len(replies))]_vars

C10_Witness ==
    /\ Replied
    /\ caught.origin = "timer"
    /\ op = ""
    /\ Len(calls) = 2
    /\ calls[1].api = "files.create" /\ calls[1].state = "resolved"
    /\ calls[2].api = "responses.create" /\ calls[2].state = "pending"
    /\ replies[1].isError

\* a search_web or fetch_url invocation that ended with the reply built from
\* the response of its upstream call
SearchReplied ==
    /\ Replied /\ caught.origin = "none"
    /\ request.name \in {"search_web", "fetch_url"}
    /\ ~replies[1].isError

\* the result the search adapter operation returned to the handler
SearchResult ==
    IF request.name = "fetch_url" THEN extractUrlFetchResponse(awaited)
    ELSE extractSearchResponse(awaited)

\* index of the first harvested citation with url u
C11_First(raw, u) ==
    CHOOSE i \in 1..Len(raw) : raw[i].url = u /\ \A j \in 1..(i - 1) : raw[j].url # u

\* C11: the extractor's citation list contains each distinct harvested URL
\* exactly once, with the title of its first occurrence ('Untitled' when
\* that occurrence has none), ordered by first occurrence.
C11_FirstOccurrenceWins ==
    SearchReplied =>
        LET raw == ItemsCitations(awaited.output)
            out == SearchResult.citations
        IN /\ { out[k].url : k \in 1..Len(out) } = { raw[i].url : i \in 1..Len(raw) }
           /\ \A k, l \in 1..Len(out) : k # l => out[k].url # out[l].url
           /\ \A k \in 1..Len(out) :
                 /\ out[k].title = raw[C11_First(raw, out[k].url)].title
                 /\ out[k].title # << >>
           /\ \A k, l \in 1..Len(out) :
                 k < l => C11_First(raw, out[k].url) < C11_First(raw, out[l].url)

C11_Witness ==
    /\ SearchReplied
    /\ awaited = CitationResponse(<< Ann("url_citation", << >>, UrlB),
                                     Ann("url_citation", <<"Site A">>, UrlA),
                                     Ann("url_citation", <<"Site A">>, UrlB) >>)
    /\ SearchResult.citations = << [title |-> <<"Untitled">>, url |-> UrlB],
                                   [title |-> <<"Site A">>, url |-> UrlA] >>

\* C12: for search_web and fetch_url the reply text is the extracted answer
\* text, followed by a Sources section if and only if the deduplicated
\* citation list is non-empty; the section has exactly one link
\* '[title](url)' per deduplicated citation, in first-seen order.
C12_SourcesSection ==
    SearchReplied =>
        LET r == SearchResult
            n == Len(r.citations)
            txt == ReplyText(1)
            base == Len(r.text)
        IN /\ Len(replies[1].content) = 1
           /\ n = Cardinality({ c.url : c \in { ItemsCitations(awaited.output)[i] :
                                                  i \in 1..Len(ItemsCitations(awaited.output)) } })
           /\ n = 0 => txt = r.text
           /\ n > 0 =>
                 /\ Len(txt) = base + 1 + 5 * n
                 /\ SubSeq(txt, 1, base) = r.text
                 /\ txt[base + 1] = "\n\n---\n**Sources:**\n"
                 /\ \A k \in 1..n :
                       SubSeq(txt, base + 5 * k - 3, base + 5 * k + 1)
                         = <<"- [">> \o r.citations[k].title \o <<"](">> \o r.citations[k].url
                           \o <<")\n">>

C12_Witness ==
    /\ SearchReplied
    /\ request.name = "search_web"
    /\ awaited = CitationResponse(<< Ann("url_citation", <<"Site A">>, UrlA),
                                     Ann("url_citation", << >>, UrlB),
                                     Ann("url_citation", << >>, UrlA) >>)
    /\ ReplyText(1) = <<"Found. ", "Details.", "\n\n---\n**Sources:**\n",
                        "- [", "Site A", "](", "https://a.example", ")\n",
                        "- [", "Untitled", "](", "https://b.example", ")\n">>

\* an upload_file invocation that got past validation and the existence check
C13_Uploading == Handling /\ request.name = "upload_file" /\ calls # << >>

\* the user text of the k-th upstream call
C13_UserText(k) == calls[k].req.input[Len(calls[k].req.input)].content[1].text

\* C13: a file whose extension, compared case-insensitively, is not in the
\* upload allow-list (a path without extension included) takes the inline
\* path: no files.create request, the content inlined in a fenced block of
\* the user content, file id 'inline', result text the model's extracted
\* answer; an extension of the allow-list takes the persistent-upload path
\* and the id is the provider's file id.
C13_UploadRouting ==
    C13_Uploading =>
        LET abs == resolve(request.arguments["file_path"].v)
            allowed == toLowerCase(extname(abs)) \in UPLOAD_SUPPORTED_EXTENSIONS
            tail(id) == <<"\n\n---\n*File: ">> \o basename(abs) \o <<" (ID: ">> \o id \o <<")*">>
            done == Replied /\ caught.origin = "none"
        IN /\ ~allowed =>
                /\ \A i \in 1..Len(calls) : calls[i].api = "responses.create"
                /\ Len(calls) = 1
                /\ \E k \in 1..(Len(C13_UserText(1)) - 4) :
                      /\ SubSeq(C13_UserText(1), k, k + 1)
                           = <<"\n\n[fence]", IF extname(abs) = "" THEN "text"
                                                ELSE toLowerCase(extname(abs))>>
                      /\ SubSeq(C13_UserText(1), k + 3, k + 4) = <<"<file content>", "\n[fence]\n\n">>
                /\ done => (~replies[1].isError
                             /\ ReplyText(1) = extractText(awaited) \o tail(<<"inline">>))
           /\ allowed =>
                /\ calls[1].api = "files.create"
                /\ \A k \in 1..Len(calls) :
                      calls[k].api = "responses.create" =>
                          \A j \in 1..Len(C13_UserText(k)) : C13_UserText(k)[j] # "<file content>"
                /\ done =>
                      LET id == IF Len(calls) = 2 THEN held ELSE awaited.id
                      IN /\ id \in { f.id : f \in FileObjects }
                         /\ Len(ReplyText(1)) >= Len(tail(id))
                         /\ SubSeq(ReplyText(1), Len(ReplyText(1)) - Len(tail(id)) + 1,
                                   Len(ReplyText(1))) = tail(id)

C13_Witness ==
    /\ C13_Uploading /\ Replied
    /\ request.arguments["file_path"].v = <<"/", "docs/", "Makefile">>
    /\ awaited = AnswerResponse
    /\ Len(calls) = 1 /\ calls[1].api = "responses.create"
    /\ ReplyText(1) = <<"The answer ", "is 4", "\n\n---\n*File: ", "Makefile", " (ID: ",
                        "inline", ")*">>

\* a generate_image / edit_image invocation whose upstream call resolved
ImageReplied ==
    /\ Replied /\ caught.origin = "none"
    /\ request.name \in {"generate_image", "edit_image"}
    /\ calls # << >>

\* P with '_i' inserted immediately before its extension (appended to P when
\* P has no extension)
C14_Indexed(P, i) ==
    IF extname(P) = "" THEN P \o <<"_", ToString(i)>>
    ELSE SubSeq(P, 1, Len(P) - 1) \o <<"_", ToString(i), P[Len(P)]>>

\* C14: generate_image with an explicit save_path P (with or without an
\* extension) that returns N > 1 images writes N files to N pairwise
\* distinct paths, image i (0-indexed) to P with '_i' inserted before P's
\* extension (appended when P has none); one image is written to P itself.
C14_IndexedSavePaths ==
    (ImageReplied /\ request.name = "generate_image" /\ Truthy(request.arguments["save_path"])
       /\ ~replies[1].isError) =>
        LET P == request.arguments["save_path"].v
            N == Len(KeptImages(awaited.data))
        IN /\ Len(saved) = N
           /\ N = 1 => saved[1].path = P
           /\ N > 1 =>
                 /\ \A i \in 0..(N - 1) : saved[i + 1].path = C14_Indexed(P, i)
                 /\ \A i, j \in 1..N : i # j => saved[i].path # saved[j].path

\* C15: when generate_image or edit_image gets a successful upstream
\* response with zero usable images, the reply is isError with the 'no image
\* was generated / safety filter' message, has no image part, and no file
\* is written for the invocation.
C15_ZeroImagesIsError ==
    (ImageReplied /\ \A i \in 1..Len(awaited.data) : awaited.data[i].b64_json = << >>) =>
        /\ replies[1].isError
        /\ replies[1].content =
              << TextPart(IF request.name = "generate_image" THEN NoImageText
                          ELSE NoEditedImageText) >>
        /\ \A k \in 1..Len(replies[1].content) : replies[1].content[k].type # "image"
        /\ saved = << >>

C15_Witness ==
    /\ ImageReplied
    /\ request.name = "edit_image"
    /\ awaited = [data |-> <<ImageUrlOnly>>]
    /\ replies[1].isError
    /\ ReplyText(1) = NoEditedImageText
    /\ saved = << >>

C16_Tools == {"ask", "search_web", "run_code", "fetch_url", "upload_file", "analyze_image"}

\* C16: for ask, search_web, run_code, fetch_url, upload_file and
\* analyze_image the model identifier sent upstream is the invocation's
\* (non-empty) model argument when one is given and the configured default
\* model otherwise; for ask the reply is a single text part equal to exactly
\* the concatenated output text, with no Sources section or other suffix.
C16_ModelAndPlainReply ==
    (Handling /\ request.name \in C16_Tools) =>
        LET given == request.arguments["model"]
            expected == IF given.k = "string" /\ given.len > 0 THEN given.v
                        ELSE config.defaultModel
        IN /\ \A i \in 1..Len(calls) :
                 calls[i].api = "responses.create" => calls[i].req.model = expected
           /\ (request.name = "ask" /\ Replied /\ caught.origin = "none" /\ calls # << >>) =>
                 /\ ~replies[1].isError
                 /\ Len(replies[1].content) = 1
                 /\ replies[1].content[1].type = "text"
                 /\ ReplyText(1) = extractText(awaited)
                 /\ \A k \in 1..Len(ReplyText(1)) :
                       ReplyText(1)[k] # "\n\n---\n**Sources:**\n"

C16_Witness ==
    /\ Replied /\ request.name = "ask"
    /\ request.arguments["model"].v = SomeModel /\ SomeModel # config.defaultModel
    /\ Len(calls) = 1 /\ calls[1].req.model = SomeModel
    /\ awaited = AnswerResponse
    /\ replies[1] = Reply(<<TextPart(<<"The answer ", "is 4">>)>>, FALSE)

\* the result of the invocation's upstream call is populated and complete
C17_Populated ==
    CASE request.name \in {"search_web", "fetch_url"} -> extractText(awaited) # << >>
      [] request.name = "run_code" ->
           LET r == extractCodeExecutionResponse(awaited)
           IN r.text # << >> \/ r.code # << >> \/ r.output # << >>
      [] request.name \in {"generate_image", "edit_image"} ->
           /\ Len(awaited.data) > 0
           /\ Len(SelectSeq(replies[1].content, LAMBDA part : part.type = "image"))
                = Len(awaited.data)
      [] request.name = "text_to_speech" -> awaited.bytes # << >> /\ Len(saved) = 1
      [] request.name = "transcribe" -> awaited.text # << >>
      [] OTHER -> TRUE

\* C17: a reply with isError=false is produced only when the upstream call
\* of the invocation completed successfully and yielded a populated result:
\* for image, audio, search and code-execution tools no reply reports
\* success with an empty result or with only part of the items the upstream
\* returned.
C17_SuccessIsPopulated ==
    (Replied /\ ~replies[1].isError) =>
        /\ caught.origin = "none"
        /\ calls # << >> /\ calls[Len(calls)].state = "resolved"
        /\ C17_Populated

\* the path in the text part that reports where the image was saved
C18_ReportedPath(text, path) ==
    LET at == IF request.name = "generate_image" THEN 4 ELSE 2
    IN Len(text) >= at + Len(path) - 1 /\ SubSeq(text, at, at + Len(path) - 1) = path

\* C18: for generate_image and edit_image every image payload of the media
\* result is written to disk before the reply is returned, and the reply
\* has, for each image of the result in result order, one inline image part
\* with that payload followed by one text part with the path it was saved to.
C18_EveryImageSavedAndReported ==
    (ImageReplied /\ ~replies[1].isError) =>
        LET images == KeptImages(awaited.data)
            content == replies[1].content
        IN /\ Len(saved) = Len(images)
           /\ Len(content) = 2 * Len(images)
           /\ \A i \in 1..Len(images) :
                 /\ saved[i].data = images[i].b64
                 /\ content[2 * i - 1] = ImagePart(images[i].b64)
                 /\ content[2 * i].type = "text"
                 /\ C18_ReportedPath(content[2 * i].text, saved[i].path)

\* the text is a decimal numeral of a positive integer
C19_DenotesPositiveInteger(text) ==
    /\ text # << >>
    /\ \A i \in 1..Len(text) : IsDigit(text[i])
    /\ \E i \in 1..Len(text) : text[i] # "0"

\* the environment the claim says startup must refuse
C19_BadEnv ==
    \/ ~env.OPENAI_API_KEY.set \/ env.OPENAI_API_KEY.v = << >>
    \/ env.OPENAI_TIMEOUT.set /\ ~C19_DenotesPositiveInteger(env.OPENAI_TIMEOUT.v)

\* C19: a tool call is handled only after configuration loading succeeded,
\* which needs a non-empty credential and a timeout base that is a positive
\* integer: with a timeout variable that does not denote a positive integer
\* (zero, negative, non-numeric text) or a missing credential, startup fails
\* and the process exits with a failure status before the transport is
\* connected.
C19_StartupValidates ==
    /\ C19_BadEnv => (pc \in {"start", "exited"} /\ transport = "none")
    /\ pc = "exited" => (exitStatus = <<1>> /\ transport = "none" /\ C19_BadEnv)
    /\ pc \notin {"start", "exited"} =>
          /\ exitStatus = << >> /\ transport = "connected"
          /\ config.apiKey # << >>
          /\ ~config.timeout.nan /\ config.timeout.n > 0

\* C20: each error category has one fixed message template: the text of an
\* isError reply for an upstream failure is determined by the failure's
\* category alone, so two failures of the same category among Timeout,
\* AuthInvalid, RateLimited, ContentPolicyBlocked and NetworkUnreachable
\* give identical reply text whatever their raw messages are.
C20_TemplateByCategoryAlone ==
    (UpstreamFailed /\ classified) =>
        \A other \in Failures :
            (/\ CategoryOf(handleError(other).message) = CategoryOf(ReplyText(1))
             /\ CategoryOf(ReplyText(1)) \in {"Timeout", "AuthInvalid", "RateLimited",
                                               "ContentPolicyBlocked", "NetworkUnreachable"})
                => handleError(other).message = ReplyText(1)

\* the content parts of every block of the k-th upstream request
C21_Parts(k) ==
    UNION { { calls[k].req.input[b].content[c] : c \in 1..Len(calls[k].req.input[b].content) } :
            b \in 1..Len(calls[k].req.input) }

\* C21: when ask is invoked with a non-empty file_ids list, the upstream
\* request built for it contains a file-reference block for every listed
\* file id.
C21_FileIdsAttached ==
    (Handling /\ request.name = "ask" /\ calls # << >>
       /\ request.arguments["file_ids"].k = "array" /\ request.arguments["file_ids"].len > 0) =>
        Cardinality({ part \in C21_Parts(1) : part.type = "input_file" }) > 0

\* the default model the README documents for each tool
C22_Documented(name) ==
    CASE name \in {"ask", "brainstorm", "search_web", "run_code", "fetch_url", "upload_file",
                    "analyze_image"} -> <<"gpt-5.2">>
      [] name = "code_review" -> <<"gpt-5.2-codex">>
      [] name = "explain" -> <<"gpt-5-mini">>
      [] name = "search_with_reasoning" -> <<"o4-mini">>
      [] name \in {"generate_image", "edit_image"} -> <<"gpt-image-1.5">>
      [] name = "text_to_speech" -> <<"gpt-4o-mini-tts">>
      [] name = "transcribe" -> <<"whisper-1">>

\* C22: with OPENAI_DEFAULT_MODEL unset and no model argument, the model
\* sent upstream per tool is the one the README documents.
C22_DocumentedDefaults ==
    (Handling /\ request.name \in ToolNames /\ calls # << >>
       /\ ("model" \in FieldNames(request.name) => request.arguments["model"].k = "undefined")) =>
        \A i \in 1..Len(calls) :
            calls[i].req.model # << >> => calls[i].req.model = C22_Documented(request.name)

\* C23: every invocation that reaches the adapter eventually gets a reply
\* even if the upstream never responds: each upstream call the handler
\* waits for (the file upload of upload_file and the reading of the speech
\* body included) is raced against an armed timer of the operation, so the
\* reply path is never blocked on the upstream alone.
C23_EveryAwaitHasDeadline ==
    pc = "running" =>
        /\ awaiting.call \in 1..Len(calls)
        /\ calls[awaiting.call].state = "pending" =>
              /\ awaiting.timer \in 1..Len(timers)
              /\ timers[awaiting.timer].state = "armed"

C25_FileCreated ==
    /\ Handling /\ request.name = "upload_file"
    /\ calls # << >>
    /\ calls[1].api = "files.create" /\ calls[1].state = "resolved"

\* C25: whenever the persistent upload of upload_file succeeded, the reply
\* carries the provider's file id, also when the follow-up model call for the
\* query then fails or times out.
C25_FileIdReachesCaller ==
    (C25_FileCreated /\ Replied) =>
        \E id \in FileObjects :
            \E k \in 1..Len(ReplyText(1)) : <<ReplyText(1)[k]>> = id.id

\* what the file at path holds after the writes of the invocation, in order:
\* the payload of the last write to it
C26_HeldAt(path) ==
    LET last == CHOOSE k \in 1..Len(saved) :
                    /\ saved[k].path = path
                    /\ \A m \in (k + 1)..Len(saved) : saved[m].path # path
    IN saved[last].data

\* C26: the media payloads an invocation saves under auto-generated paths
\* (no save_path given) go to pairwise distinct paths, so every path the
\* reply reports still holds the payload it was reported for.
C26_AutoPathsDistinct ==
    (Replied /\ caught.origin = "none"
       /\ request.name \in {"generate_image", "edit_image", "text_to_speech"}
       /\ ~Truthy(request.arguments["save_path"])) =>
        \A k \in 1..Len(saved) :
            /\ \A m \in 1..Len(saved) : m # k => saved[m].path # saved[k].path
            /\ C26_HeldAt(saved[k].path) = saved[k].data

\* the output-text parts of the message items from position (i, j) on, read
\* in the order of the output sequence and then of the item's content
RECURSIVE C27_From(_, _, _)
C27_From(output, i, j) ==
    IF i > Len(output) THEN << >>
    ELSE IF j > Len(output[i].content) THEN C27_From(output, i + 1, 1)
    ELSE (IF output[i].type = "message" /\ output[i].content[j].type = "output_text"
          THEN output[i].content[j].text ELSE << >>)
         \o C27_From(output, i, j + 1)

C27_TextTools == {"ask", "code_review", "brainstorm", "explain", "analyze_image"}

\* C27: the extracted answer text is the concatenation, with no separator,
\* of the text of all output-text parts of all message items in response
\* order; other items and other parts contribute nothing, and a response
\* with no output yields the empty text. Observed on the tools whose reply
\* is the extracted text alone.
C27_TextIsOrderedConcatenation ==
    (Replied /\ caught.origin = "none" /\ request.name \in C27_TextTools /\ calls # << >>) =>
        /\ ReplyText(1) = C27_From(awaited.output, 1, 1)
        /\ (awaited.output = << >> => ReplyText(1) = << >>)

C27_Witness ==
    /\ Replied /\ request.name = "explain"
    /\ awaited = AnswerResponse
    /\ ReplyText(1) = <<"The answer ", "is 4">>

\* the summary-text fragments of the reasoning items from position (i, j) on
RECURSIVE C28_TraceFrom(_, _, _)
C28_TraceFrom(output, i, j) ==
    IF i > Len(output) THEN << >>
    ELSE IF j > Len(output[i].summary) THEN C28_TraceFrom(output, i + 1, 1)
    ELSE (IF output[i].type = "reasoning" /\ output[i].summary[j].type = "summary_text"
          THEN output[i].summary[j].text ELSE << >>)
         \o C28_TraceFrom(output, i, j + 1)

\* C28: for search_with_reasoning the effort sent upstream is the given
\* effort, or 'high' when none is given; the reasoning trace is the in-order
\* concatenation of the summary-text fragments of the reasoning items and
\* the answer text that of the output-text parts of the message items; the
\* reply is the trace wrapped in a <reasoning> block followed by the answer
\* text when the trace is non-empty, and the answer text alone otherwise.
C28_ReasoningTraceAndEffort ==
    (Handling /\ request.name = "search_with_reasoning" /\ calls # << >>) =>
        LET given == request.arguments["effort"]
        IN /\ calls[1].req.effort = (IF given.k = "undefined" THEN <<"high">> ELSE given.v)
           /\ calls[1].req.effort \in Efforts
           /\ (Replied /\ caught.origin = "none") =>
                 LET trace == C28_TraceFrom(awaited.output, 1, 1)
                     text == C27_From(awaited.output, 1, 1)
                 IN /\ ~replies[1].isError
                    /\ Len(replies[1].content) = 1
                    /\ ReplyText(1) =
                          IF trace # << >>
                          THEN <<"<reasoning>\n">> \o trace \o <<"\n</reasoning>\n\n">> \o text
                          ELSE text

C28_Witness ==
    /\ Replied /\ request.name = "search_with_reasoning"
    /\ request.arguments["effort"].k = "undefined"
    /\ calls # << >> /\ calls[1].req.effort = <<"high">>
    /\ awaited = ToolResponse
    /\ ReplyText(1) = <<"<reasoning>\n", "think", " more", "\n</reasoning>\n\n", "done">>

\* the texts of seq joined by newlines
RECURSIVE C29_Join(_)
C29_Join(seq) ==
    IF seq = << >> THEN << >>
    ELSE IF Len(seq) = 1 THEN seq[1]
    ELSE seq[1] \o <<"\n">> \o C29_Join(Tail(seq))

\* the code fields of the code-interpreter-call items that have one, in
\* response order
RECURSIVE C29_Codes(_)
C29_Codes(output) ==
    IF output = << >> THEN << >>
    ELSE (IF output[1].type = "code_interpreter_call" /\ output[1].code # << >>
          THEN <<output[1].code>> ELSE << >>)
         \o C29_Codes(Tail(output))

\* the logs-type results of one item, in order
RECURSIVE C29_ItemLogs(_)
C29_ItemLogs(results) ==
    IF results = << >> THEN << >>
    ELSE (IF results[1].type = "logs" THEN <<results[1].text>> ELSE << >>)
         \o C29_ItemLogs(Tail(results))

\* the logs-type results of all code-interpreter-call items, in response order
RECURSIVE C29_Logs(_)
C29_Logs(output) ==
    IF output = << >> THEN << >>
    ELSE (IF output[1].type = "code_interpreter_call" THEN C29_ItemLogs(output[1].results)
          ELSE << >>)
         \o C29_Logs(Tail(output))

\* C29: for run_code the extracted code is the code fields of the
\* code-interpreter-call items joined by newlines, the extracted output is
\* all logs-type results joined by newlines (other results ignored), both in
\* response order; the reply is the answer text, then a python code block
\* only when the code is non-empty, then an Output block only when the
\* output is non-empty.
C29_CodeAndLogsNewlineJoined ==
    (Replied /\ caught.origin = "none" /\ request.name = "run_code" /\ calls # << >>) =>
        LET code == C29_Join(C29_Codes(awaited.output))
            output == C29_Join(C29_Logs(awaited.output))
        IN ReplyText(1) =
             C27_From(awaited.output, 1, 1)
             \o (IF code # << >> THEN <<"\n\n[fence]python\n">> \o code \o <<"\n[fence]">>
                  ELSE << >>)
             \o (IF output # << >>
                  THEN <<"\n\n**Output:**\n[fence]\n">> \o output \o <<"\n[fence]">>
                  ELSE << >>)

\* the tools whose request carries an instruction block
C30_Instructed ==
    {"code_review", "brainstorm", "explain", "search_web", "run_code", "fetch_url"}

\* the capabilities a request activates
C30_Capabilities(req) ==
    {req.tools[k] : k \in 1..Len(req.tools)}
    \cup (IF req.effort # << >> THEN {"reasoning"} ELSE {})

\* the one capability set of each tool
C30_Shape(name) ==
    CASE name \in {"search_web", "fetch_url"} -> {"web_search_preview"}
      [] name = "run_code" -> {"code_interpreter"}
      [] name = "search_with_reasoning" -> {"reasoning"}
      [] OTHER -> {}

\* C30: every model request the adapter builds has its blocks in a fixed
\* order: the developer block, present exactly for the tools that have an
\* instruction, is first and the user block follows it, never the reverse;
\* web search is activated exactly for search_web and fetch_url, the code
\* sandbox exactly for run_code, extended reasoning exactly for
\* search_with_reasoning, and nothing for the other text tools.
C30_BlockOrderAndShape ==
    Handling =>
        \A i \in 1..Len(calls) :
            calls[i].api = "responses.create" =>
                LET input == calls[i].req.input
                IN /\ Len(input) = (IF request.name \in C30_Instructed THEN 2 ELSE 1)
                   /\ input[Len(input)].role = "user"
                   /\ request.name \in C30_Instructed => input[1].role = "developer"
                   /\ \A k \in 2..Len(input) : input[k].role # "developer"
                   /\ C30_Capabilities(calls[i].req) = C30_Shape(request.name)

C30_Witness ==
    /\ Handling /\ request.name = "run_code" /\ Len(calls) = 1
    /\ calls[1].req.input[1] = Block("developer", <<Content("text", CODE_EXECUTION_PROMPT)>>)
    /\ calls[1].req.input[2] = Block("user", <<Content("text", request.arguments["prompt"].v)>>)
    /\ calls[1].req.tools = <<"code_interpreter">>
    /\ calls[1].req.effort = << >>

====
